---- MODULE Spec2Model ----
(***************************************************************************)
(* Simba (simba.py): the Namespace trie, Anlyzer.solve_name / get_solved / *)
(* get_unsolved and the three node handlers of the Anlyzer transformer,    *)
(* run under safe_node_visitor against a nondeterministic completion       *)
(* oracle (jedi).                                                          *)
(*                                                                         *)
(* A dotted string ("os.path") is a sequence of segments (<<"os","path">>);*)
(* the empty string is <<>>.  A Namespace is a record whose items field    *)
(* is the dict part (key -> Namespace).  Python's reference semantics is   *)
(* kept by Attached/Store: an item assignment reaches the trie only when   *)
(* every object on the way down was itself taken from a dict and not       *)
(* handed out by __missing__.                                              *)
(***************************************************************************)
EXTENDS Naturals, Sequences, FiniteSets, TLC

VARIABLES
    solved_names,   \* Anlyzer.solved_names: the root Namespace
    nnodes,         \* how many nodes of interest the file holds
    visited,        \* how many nodes of the file the traversal has reached
    faults,         \* how many of the visited nodes had a fault raised in their handler
    status,         \* "running" | "aborted": whether a fault escaped a handler
    handled,        \* the node handed to a handler last
    answers,        \* what the oracle does on each query that handler may make
    last,           \* the last operation: its input, the trie before it, its result
    called,         \* the dotted paths solve_name was called on, with the first call's type
    ncalls,         \* how many direct calls of solve_name were made
    twin,           \* the same run with one node's oracle query faulting
    injected,       \* whether the twin's fault has been injected
    own,            \* the dotted paths the faulted node records when its query answers
    others,         \* the dotted paths recorded by the nodes other than the faulted one
    code            \* Anlyzer.code: the lines of the file, after an empty line 0

vars == <<solved_names, nnodes, visited, faults, status, handled, answers, last,
          called, ncalls, twin, injected, own, others, code>>

-----------------------------------------------------------------------------
(* Bounds *)

\* nodes of one file
MaxNodes == 2
\* direct calls of solve_name in one run
MaxCalls == 3
\* lines of a source text
MaxLines == 2
\* characters of one line
MaxCols == 2

Names == {"foo", "bar"}
Types == {"module", "function"}
None == "None"
\* the characters of a source line: whitespace and one other
Chars == {" ", "x"}

-----------------------------------------------------------------------------
(* Namespace(dict) *)

NoItems == [k \in {} |-> TRUE]

\* Namespace.__init__(name, type=None) without kwargs
Namespace(name, type) ==
    [name |-> name,
     type |-> IF type = None THEN "unknown" ELSE type,
     inited |-> FALSE,
     items |-> NoItems]

\* no keyword arguments / type=t
NoKwargs == [k \in {} |-> None]
KwType(t) == [k \in {"type"} |-> t]

\* Namespace.init(**kwargs)
init(self, kwargs) ==
    [self EXCEPT !.type = IF "type" \in DOMAIN kwargs THEN kwargs["type"] ELSE @,
                 !.inited = TRUE]

\* Namespace.__missing__(name): a fresh record, not stored
__missing__(name) == Namespace(name, None)

\* dict.__getitem__ on a Namespace
getitem(self, k) ==
    IF k \in DOMAIN self.items THEN self.items[k] ELSE __missing__(k)

\* dict.__setitem__ on a Namespace
setitem(self, k, v) ==
    [self EXCEPT !.items = [x \in DOMAIN self.items \cup {k} |->
                               IF x = k THEN v ELSE self.items[x]]]

\* str.split("."): "" splits into [""]
split(path) == IF path = <<>> THEN <<"">> ELSE path

\* ".".join(segments)
join(segs) == IF segs = <<"">> THEN <<>> ELSE segs

\* the segments solve_name walks: the empty ones are skipped
RECURSIVE SkipEmpty(_)
SkipEmpty(segs) ==
    IF segs = <<>> THEN <<>>
    ELSE IF Head(segs) = "" THEN SkipEmpty(Tail(segs))
    ELSE <<Head(segs)>> \o SkipEmpty(Tail(segs))

\* parent = parent[i] along segs
RECURSIVE Walk(_, _)
Walk(ns, segs) ==
    IF segs = <<>> THEN ns ELSE Walk(getitem(ns, Head(segs)), Tail(segs))

\* whether the object Walk ends at is the one held in the trie (every key was there)
RECURSIVE Attached(_, _)
Attached(ns, segs) ==
    \/ segs = <<>>
    \/ /\ Head(segs) \in DOMAIN ns.items
       /\ Attached(ns.items[Head(segs)], Tail(segs))

\* the trie after  Walk(ns, segs)[name] = info  on an attached parent
RECURSIVE Store(_, _, _, _)
Store(ns, segs, name, info) ==
    IF segs = <<>> THEN setitem(ns, name, info)
    ELSE setitem(ns, Head(segs), Store(ns.items[Head(segs)], Tail(segs), name, info))

\* solve_name without its  if not info.inited  test
solve_name_rewrite(root, path, name, kwargs) ==
    LET segs == SkipEmpty(split(path))
        info == getitem(Walk(root, segs), name)
    IN  [info |-> init(info, kwargs),
         root |-> IF Attached(root, segs)
                  THEN Store(root, segs, name, init(info, kwargs)) ELSE root]

\* solve_name calling info.init() without the keyword arguments
solve_name_untyped(root, path, name, kwargs) ==
    LET segs == SkipEmpty(split(path))
        info == getitem(Walk(root, segs), name)
    IN  IF ~info.inited
        THEN [info |-> init(info, NoKwargs),
              root |-> IF Attached(root, segs)
                       THEN Store(root, segs, name, init(info, NoKwargs)) ELSE root]
        ELSE [info |-> info, root |-> root]

\* Walk(ns, segs)[name] = info  were __missing__ to store what it hands out
RECURSIVE StoreCreating(_, _, _, _)
StoreCreating(ns, segs, name, info) ==
    IF segs = <<>> THEN setitem(ns, name, info)
    ELSE setitem(ns, Head(segs),
                 StoreCreating(getitem(ns, Head(segs)), Tail(segs), name, info))

\* solve_name over a trie whose missing ancestors are stored on the way down
solve_name_creating(root, path, name, kwargs) ==
    LET segs == SkipEmpty(split(path))
        info == getitem(Walk(root, segs), name)
    IN  IF ~info.inited
        THEN [info |-> init(info, kwargs),
              root |-> StoreCreating(root, segs, name, init(info, kwargs))]
        ELSE [info |-> info, root |-> root]

\* Anlyzer.solve_name(path, name, **kwargs): the record returned and the trie after
solve_name(root, path, name, kwargs) ==
    LET segs == SkipEmpty(split(path))
        parent == Walk(root, segs)
        info == getitem(parent, name)
    IN  IF ~info.inited
        THEN [info |-> init(info, kwargs),
              root |-> IF Attached(root, segs)
                       THEN Store(root, segs, name, init(info, kwargs)) ELSE root]
        ELSE [info |-> info, root |-> root]

\* Python's None where a Namespace is expected
NoRecord == [name |-> None, type |-> None, inited |-> FALSE, items |-> NoItems]

\* Anlyzer.get_solved(path): the record, or None
get_solved(root, path) ==
    LET info == Walk(root, path)
    IN  IF info.inited THEN info ELSE NoRecord

\* the lookups of get_solved were __missing__ to store what it hands out
RECURSIVE Lookups_storing(_, _)
Lookups_storing(ns, segs) ==
    IF segs = <<>> THEN ns
    ELSE setitem(ns, Head(segs), Lookups_storing(getitem(ns, Head(segs)), Tail(segs)))

\* the trie after get_solved's  info = info[i]  along segs: a key that is there
\* is read, a missing one goes to __missing__, which stores nothing
RECURSIVE Lookups(_, _)
Lookups(ns, segs) ==
    IF segs = <<>> THEN ns
    ELSE IF Head(segs) \in DOMAIN ns.items
    THEN setitem(ns, Head(segs), Lookups(ns.items[Head(segs)], Tail(segs)))
    ELSE ns

\* get_unsolved reporting a record only when it has no children
RECURSIVE visit_leaves(_, _)
visit_leaves(root, prefix) ==
    UNION { IF DOMAIN root.items[k].items # {}
            THEN visit_leaves(root.items[k], prefix \o <<k>>)
            ELSE IF root.items[k].type = "unknown" THEN {join(prefix \o <<k>>)} ELSE {}
          : k \in DOMAIN root.items }

\* Anlyzer.get_unsolved(): visit(root, prefix)
RECURSIVE visit(_, _)
visit(root, prefix) ==
    UNION { (IF root.items[k].type = "unknown" THEN {join(prefix \o <<k>>)} ELSE {})
            \cup (IF DOMAIN root.items[k].items # {} THEN visit(root.items[k], prefix \o <<k>>) ELSE {})
          : k \in DOMAIN root.items }

get_unsolved(root) == visit(root, <<>>)

-----------------------------------------------------------------------------
(* The source slicer.  A string is the sequence of its characters. *)

\* os.linesep
linesep == "\n"

\* the lines code.splitlines() gives
SourceLines == UNION { [1..n -> Chars] : n \in 0..MaxCols }

\* self.code as analysis() leaves it: [""] + code.splitlines()
Sources ==
    { <<<<>>>> \o ls : ls \in UNION { [1..n -> SourceLines] : n \in 1..MaxLines } }

\* s[:n] of a string or a list
slice(s, n) == SubSeq(s, 1, IF n < Len(s) THEN n ELSE Len(s))

\* SPACE_PREFIX.search(s).group(): the longest prefix of whitespace
RECURSIVE SPACE_PREFIX(_)
SPACE_PREFIX(s) ==
    IF s # <<>> /\ Head(s) = " " THEN <<" ">> \o SPACE_PREFIX(Tail(s)) ELSE <<>>

\* os.linesep.join(lines)
RECURSIVE linesep_join(_)
linesep_join(lines) ==
    IF lines = <<>> THEN <<>>
    ELSE IF Len(lines) = 1 THEN lines[1]
    ELSE lines[1] \o <<linesep>> \o linesep_join(Tail(lines))

\* Anlyzer.get_code(line, col, newline) on self.code
get_code(self_code, line, col, newline) ==
    LET lines == slice(self_code, line)
        last_line == lines[Len(lines)]
    IN  IF col # 0
        THEN linesep_join([lines EXCEPT ![Len(lines)] = slice(last_line, col + 1)])
        ELSE IF newline
        THEN linesep_join(Append(lines, SPACE_PREFIX(last_line)))
        ELSE linesep_join(lines)

-----------------------------------------------------------------------------
(* Syntax-tree nodes and the completion oracle *)

\* an ast.alias of an ImportFrom (name is an identifier) or of an Import (name is dotted)
Alias(name, asname) == [name |-> name, asname |-> asname]

ImportFrom(module, names) ==
    [kind |-> "ImportFrom", module |-> module, names |-> names, imports |-> <<>>, attrs |-> <<>>]
Import(imports) ==
    [kind |-> "Import", module |-> <<>>, names |-> <<>>, imports |-> imports, attrs |-> <<>>]
\* an ast.Attribute, given by the attrs list its handler builds (root name first)
Attribute(attrs) ==
    [kind |-> "Attribute", module |-> <<>>, names |-> <<>>, imports |-> <<>>, attrs |-> attrs]
\* Python's None where a node is expected
NoneNode ==
    [kind |-> None, module |-> <<>>, names |-> <<>>, imports |-> <<>>, attrs |-> <<>>]

ImportFromNodes ==
    { ImportFrom(<<"foo">>, <<Alias("bar", None)>>),
      ImportFrom(<<"foo">>, <<Alias("bar", "foo")>>),
      ImportFrom(<<"foo">>, <<Alias("foo", None), Alias("bar", None)>>),
      ImportFrom(<<"foo", "bar">>, <<Alias("foo", None)>>) }

ImportNodes ==
    { Import(<<Alias(<<"foo">>, None)>>),
      Import(<<Alias(<<"bar">>, "foo")>>),
      Import(<<Alias(<<"foo", "bar">>, "foo")>>),
      Import(<<Alias(<<"foo">>, None), Alias(<<"foo", "bar">>, None)>>) }

AttributeNodes ==
    { Attribute(<<"foo">>),
      Attribute(<<"foo", "bar">>),
      Attribute(<<"bar", "foo">>),
      Attribute(<<"foo", "bar", "foo">>) }

\* the types jedi reports for the candidates
CandidateTypes == {"function"}

\* a jedi completion: its name, its type and its module_name
Candidates == [name : Names, type : CandidateTypes, module_name : {<<"foo">>, <<"bar">>}]
\* completions.get(...) finding nothing
NoCandidate == [name |-> None, type |-> None, module_name |-> <<>>]

\* the dict get_completions builds, in its order
Completions == {<<>>} \cup { <<c>> : c \in Candidates }

\* what one oracle query does: it raises, or it returns completions
Answers ==
    { [fault |-> TRUE, completions |-> <<>>] }
    \cup { [fault |-> FALSE, completions |-> cs] : cs \in Completions }

\* completions.get(name)
get(completions, name) ==
    IF \E i \in 1..Len(completions) : completions[i].name = name
    THEN completions[CHOOSE i \in 1..Len(completions) : completions[i].name = name]
    ELSE NoCandidate

\* the oracle queries a handler may make on a node
NQueries(node) ==
    IF node.kind = "ImportFrom" THEN 1
    ELSE IF node.kind = "Import" THEN Len(node.imports)
    ELSE IF Len(node.attrs) > 1 THEN Len(node.attrs) - 1 ELSE 0

\* a handler's progress: the trie, the solve_name calls made (dotted path and
\* type passed), the oracle queries made, whether a fault was raised inside the
\* handler, whether it escaped to the traversal, and the value returned
Progress(root) ==
    [root |-> root, calls |-> <<>>, queries |-> 0, raised |-> FALSE, escaped |-> FALSE,
     ret |-> NoneNode]

\* one self.solve_name(path, name, **kwargs) inside a handler
Solve(st, path, name, kwargs) ==
    [st EXCEPT !.root = solve_name(st.root, path, name, kwargs).root,
               !.calls = @ \o << [path |-> SkipEmpty(split(path)) \o <<name>>,
                                  type |-> IF "type" \in DOMAIN kwargs
                                           THEN kwargs["type"] ELSE "unknown"] >>]

-----------------------------------------------------------------------------
(* The handlers.  ans[i] is what the i-th oracle query of the handler does. *)

\* visit_ImportFrom: for name in node.names, from the i-th name on
RECURSIVE ImportFromLoop(_, _, _, _)
ImportFromLoop(st, node, completions, i) ==
    IF i > Len(node.names) THEN st
    ELSE LET name == node.names[i]
             completion == get(completions, name.name)
         IN  ImportFromLoop(
                 IF completion = NoCandidate
                 THEN Solve(st, node.module, name.name, NoKwargs)
                 ELSE Solve(st, node.module, name.name, KwType(completion.type)),
                 node, completions, i + 1)

visit_ImportFrom(root, node, ans) ==
    LET st == [Progress(root) EXCEPT !.queries = 1]
    IN  IF ans[1].fault
        THEN [st EXCEPT !.raised = TRUE]
        ELSE [ImportFromLoop(st, node, ans[1].completions, 1) EXCEPT !.ret = node]

\* visit_Import: for name in node.names, from the i-th name on
RECURSIVE ImportLoop(_, _, _, _)
ImportLoop(st, node, ans, i) ==
    IF i > Len(node.imports) THEN st
    ELSE IF ans[i].fault
    THEN [st EXCEPT !.queries = i, !.raised = TRUE]
    ELSE LET parts == node.imports[i].name
             module == join(SubSeq(parts, 1, Len(parts) - 1))
             name == parts[Len(parts)]
             asked == [st EXCEPT !.queries = i]
         IN  ImportLoop(
                 IF ans[i].completions # <<>>
                 THEN Solve(asked, module, name, KwType("module"))
                 ELSE Solve(asked, module, name, NoKwargs),
                 node, ans, i + 1)

visit_Import(root, node, ans) ==
    LET st == ImportLoop(Progress(root), node, ans, 1)
    IN  IF st.raised THEN st ELSE [st EXCEPT !.ret = node]

\* visit_Attribute: for i in range(1, len(attrs)), from i on; parent and name
\* are the handler's locals (name is the inner loop's variable)
RECURSIVE AttributeLoop(_, _, _, _, _, _)
AttributeLoop(st, attrs, ans, i, parent, name) ==
    IF i > Len(attrs) - 1 THEN st
    ELSE IF ans[i].fault
    THEN [st EXCEPT !.queries = i, !.raised = TRUE]
    ELSE LET attr == attrs[i + 1]
             completions == ans[i].completions
             asked == [st EXCEPT !.queries = i]
             parent1 == IF parent = NoCandidate THEN get(completions, attr) ELSE parent
         IN  IF parent1 = NoCandidate
             THEN Solve(asked, <<>>, attr, NoKwargs)
             ELSE IF get(completions, attr) # NoCandidate
             THEN LET completion == get(completions, attr)
                  IN  AttributeLoop(
                          Solve(asked, parent1.module_name, attr, KwType(completion.type)),
                          attrs, ans, i + 1, completion, attr)
             ELSE LET name1 == IF completions = <<>> THEN name
                               ELSE completions[Len(completions)].name
                  IN  IF name1 = None
                      THEN [asked EXCEPT !.raised = TRUE]
                      ELSE AttributeLoop(
                               Solve(asked, parent1.module_name, name1, NoKwargs),
                               attrs, ans, i + 1, parent1, name1)

visit_Attribute(root, node, ans) ==
    AttributeLoop(Progress(root), node.attrs, ans, 1, NoCandidate, None)

\* safe_node_visitor(func): a fault raised by func is swallowed and the node returned
safe_node_visitor_bare(node, st) ==
    [st EXCEPT !.escaped = st.raised]

safe_node_visitor(node, st) ==
    IF st.raised THEN [st EXCEPT !.ret = node] ELSE st

\* NodeTransformer.visit: the handler of the node's kind, wrapped
Handler(root, node, ans) ==
    safe_node_visitor(node,
        IF node.kind = "ImportFrom" THEN visit_ImportFrom(root, node, ans)
        ELSE IF node.kind = "Import" THEN visit_Import(root, node, ans)
        ELSE visit_Attribute(root, node, ans))

-----------------------------------------------------------------------------
(* The run *)

NodeSet == ImportFromNodes \cup ImportNodes \cup AttributeNodes

\* the parent paths of the direct solve_name calls
SolvePaths == {<<>>, <<"foo">>, <<"bar">>, <<"foo", "bar">>}

\* called, after the solve_name calls of one operation, in their order
RECURSIVE Record(_, _)
Record(seen, calls) ==
    IF calls = <<>> THEN seen
    ELSE LET c == Head(calls)
         IN  Record(IF c.path \in DOMAIN seen THEN seen
                    ELSE [p \in DOMAIN seen \cup {c.path} |->
                             IF p = c.path THEN c.type ELSE seen[p]],
                    Tail(calls))

NoOp ==
    [op |-> "none", path |-> <<>>, name |-> None,
     type |-> None, before |-> Namespace("", "root"), info |-> NoRecord,
     ret |-> NoneNode, raised |-> FALSE, calls |-> <<>>, queries |-> 0,
     line |-> 0, col |-> 0, newline |-> FALSE, text |-> <<>>]

\* Anlyzer.__init__, before analysis(file) of a file of nnodes nodes
Start ==
    /\ solved_names = Namespace("", "root")
    /\ visited = 0
    /\ faults = 0
    /\ status = "running"
    /\ handled = NoneNode
    /\ answers = <<>>
    /\ last = NoOp
    /\ called = [p \in {} |-> None]
    /\ ncalls = 0
    /\ twin = Namespace("", "root")
    /\ injected = FALSE
    /\ own = {}
    /\ others = {}

Init == Start /\ nnodes = MaxNodes /\ code = None

\* the traversal reaches one more node of the file, n, and hands it to its handler
Visit(n) ==
    /\ status = "running"
    /\ visited < nnodes
    /\ \E ans \in [1..NQueries(n) -> Answers] :
          LET st == Handler(solved_names, n, ans)
          IN  /\ handled' = n
              /\ answers' = ans
              /\ solved_names' = st.root
              /\ visited' = visited + 1
              /\ faults' = IF st.raised THEN faults + 1 ELSE faults
              /\ status' = IF st.escaped THEN "aborted" ELSE "running"
              /\ called' = Record(called, st.calls)
              /\ last' = [NoOp EXCEPT !.op = "visit",
                                      !.before = solved_names, !.ret = st.ret,
                                      !.raised = st.raised, !.calls = st.calls,
                                      !.queries = st.queries]
    /\ UNCHANGED <<nnodes, ncalls, twin, injected, own, others, code>>

\* NodeTransformer.visit finds the handler by the node's class
VisitImportFrom ==
    \E n \in NodeSet :
        /\ n.kind = "ImportFrom"
        /\ Visit(n)

VisitImport ==
    \E n \in NodeSet :
        /\ n.kind = "Import"
        /\ Visit(n)

VisitAttribute ==
    \E n \in NodeSet :
        /\ n.kind = "Attribute"
        /\ Visit(n)

Next == VisitImportFrom \/ VisitImport \/ VisitAttribute

Spec == Init /\ [][Next]_vars

\* a direct call solve_name(path, name) or solve_name(path, name, type=t)
SolveNameCall ==
    /\ ncalls < MaxCalls
    /\ \E path \in SolvePaths, name \in Names, type \in Types \cup {None} :
          LET kwargs == IF type = None THEN NoKwargs ELSE KwType(type)
              r == solve_name(solved_names, path, name, kwargs)
          IN  /\ solved_names' = r.root
              /\ ncalls' = ncalls + 1
              /\ called' = Record(called,
                               << [path |-> SkipEmpty(split(path)) \o <<name>>,
                                   type |-> IF type = None THEN "unknown" ELSE type] >>)
              /\ last' = [NoOp EXCEPT !.op = "solve_name", !.path = path, !.name = name,
                                      !.type = type, !.before = solved_names,
                                      !.info = r.info]
    /\ UNCHANGED <<nnodes, visited, faults, status, handled, answers, twin, injected,
                   own, others, code>>

NextSolve == SolveNameCall

SpecSolve == Init /\ [][NextSolve]_vars

\* analysis(file) has read a file of at least one line; no node is visited here
InitCode == Start /\ nnodes = 0 /\ code \in Sources

\* a call get_code(line, col) or get_code(line, col, newline) at a position of the file
GetCodeCall ==
    /\ \E line \in 1..(Len(code) - 1), col \in 0..MaxCols, newline \in BOOLEAN :
          last' = [NoOp EXCEPT !.op = "get_code", !.line = line, !.col = col,
                               !.newline = newline,
                               !.text = get_code(code, line, col, newline)]
    /\ UNCHANGED <<solved_names, nnodes, visited, faults, status, handled, answers,
                   called, ncalls, twin, injected, own, others, code>>

NextCode == GetCodeCall

SpecCode == InitCode /\ [][NextCode]_vars

\* the attribute chains of a file of chains: up to four segments, so that a
\* step of the handler has steps before and after it
ChainNodes == AttributeNodes \cup { Attribute(<<"foo", "bar", "foo", "bar">>) }

\* analysis(file) of a file whose one node of interest is an attribute chain:
\* what a handler records and asks does not depend on the trie it starts from
InitChain == Start /\ nnodes = 1 /\ code = None

\* the traversal reaches an attribute chain
VisitChain ==
    \E n \in ChainNodes :
        /\ n.kind = "Attribute"
        /\ Visit(n)

NextChain == VisitChain

SpecChain == InitChain /\ [][NextChain]_vars

\* the dotted paths of recorded solve_name calls
Paths(calls) == { calls[i].path : i \in 1..Len(calls) }

\* Two runs of the traversal over the same file with the same oracle: in the
\* twin, query q of one node raises where the oracle answered (q = 0: the node
\* is visited alike in both).  The oracle's answer depends on the query text
\* alone, which no handler builds from the trie.
TwinVisit ==
    /\ status = "running"
    /\ visited < nnodes
    /\ \E n \in NodeSet : \E ans \in [1..NQueries(n) -> Answers] :
       \E q \in 0..NQueries(n) :
          LET st == Handler(solved_names, n, ans)
              raising == [i \in 1..NQueries(n) |->
                            IF i = q THEN [fault |-> TRUE, completions |-> <<>>]
                            ELSE ans[i]]
              tw == Handler(twin, n, raising)
          IN  /\ q > 0 => (~injected /\ q <= st.queries /\ ~ans[q].fault)
              /\ handled' = n
              /\ answers' = ans
              /\ solved_names' = st.root
              /\ twin' = tw.root
              /\ injected' = (injected \/ q > 0)
              /\ own' = IF q > 0 THEN Paths(st.calls) ELSE own
              /\ others' = IF q > 0 THEN others ELSE others \cup Paths(st.calls)
              /\ visited' = visited + 1
              /\ faults' = IF st.raised THEN faults + 1 ELSE faults
              /\ status' = IF st.escaped THEN "aborted" ELSE "running"
              /\ called' = Record(called, st.calls)
              /\ last' = [NoOp EXCEPT !.op = "visit",
                                      !.before = solved_names, !.ret = st.ret,
                                      !.raised = st.raised, !.calls = st.calls,
                                      !.queries = st.queries]
    /\ UNCHANGED <<nnodes, ncalls, code>>

NextIso == TwinVisit

SpecIso == Init /\ [][NextIso]_vars

\* analysis(file) of any file of at most MaxNodes nodes
LiveInit == Start /\ nnodes \in 0..MaxNodes /\ code = None

\* the traversal's loop takes the next node: it is a synchronous loop, and it
\* goes on while a node is left and no fault has escaped a handler
Advance ==
    /\ status = "running"
    /\ visited < nnodes
    /\ visited' = visited + 1

\* whenever the loop can go on, a handler step is there to take
AdvanceIsVisit == (status = "running" /\ visited < nnodes) => ENABLED Next

LiveSpec == LiveInit /\ [][Next]_vars /\ WF_visited(Advance)

-----------------------------------------------------------------------------
(* Claims on solve_name, under SpecSolve *)

\* the dotted path of the record the last solve_name call was about
LastPath == SkipEmpty(split(last.path)) \o <<last.name>>

\* the dotted paths a run can record
AllPaths ==
    { <<a>> : a \in Names }
    \cup { <<a, b>> : a \in Names, b \in Names }
    \cup { <<a, b, c>> : a \in Names, b \in Names, c \in Names }

\* a record is held in the trie at path p
Reachable(root, p) == Attached(root, p)

\* C1: after solve_name(path, name) returns, the record of path + name and a
\* record of every prefix of it are reachable from the trie root, also when
\* no segment of the parent path was recorded before.
C1_AncestorsCreated ==
    last.op = "solve_name" =>
        \A i \in 1..Len(LastPath) : Reachable(solved_names, SubSeq(LastPath, 1, i))

\* C2: when a path is resolved a second time with a candidate kind that
\* differs from the kind of its first resolution, the record the second
\* call returns and the record read from the trie carry the first kind.
C2_FirstWriterWins ==
    (/\ last.op = "solve_name"
     /\ last.type \in Types
     /\ called[LastPath] \in Types
     /\ called[LastPath] # last.type)
    => /\ last.info.type = called[LastPath]
       /\ get_solved(solved_names, LastPath).type = called[LastPath]

\* C3: once a record reachable from the root is resolved (also when it was
\* recorded with the unknown kind), a solve_name call on its path, with any
\* kind or none, leaves the whole trie unchanged, and no solve_name call
\* changes the kind of any resolved record.
C3_ResolvedIsFinal ==
    last.op = "solve_name" =>
        /\ (Reachable(last.before, LastPath) /\ Walk(last.before, LastPath).inited)
               => solved_names = last.before
        /\ \A q \in AllPaths :
               (Reachable(last.before, q) /\ Walk(last.before, q).inited)
               => /\ Reachable(solved_names, q)
                  /\ Walk(solved_names, q).type = Walk(last.before, q).type

\* a second-level record recorded as unknown is resolved again with a kind
C3_Witness ==
    /\ last.op = "solve_name"
    /\ Len(LastPath) = 2
    /\ Reachable(last.before, LastPath)
    /\ Walk(last.before, LastPath).type = "unknown"
    /\ last.type \in Types
    /\ Walk(solved_names, LastPath).type = "unknown"

-----------------------------------------------------------------------------
(* Claims on the handlers and on get_unsolved, under Spec *)

EmptyTrie == Namespace("", "root")

\* the kwargs of a recorded solve_name call
KwOf(type) == IF type = "unknown" THEN NoKwargs ELSE KwType(type)

\* the trie after the recorded solve_name calls, made in their order on root
RECURSIVE Replay(_, _)
Replay(root, calls) ==
    IF calls = <<>> THEN root
    ELSE LET c == Head(calls)
         IN  Replay(solve_name(root, SubSeq(c.path, 1, Len(c.path) - 1),
                               c.path[Len(c.path)], KwOf(c.type)).root,
                    Tail(calls))

\* C4: after visiting  from M import n  on a trie that did not hold M.n, when
\* the oracle query succeeded and returned no candidate named n, the dotted
\* path M.n is in get_unsolved().
C4_AbsentImportReported ==
    (last.op = "visit" /\ handled.kind = "ImportFrom" /\ ~last.raised)
    => \A i \in 1..Len(handled.names) :
          LET n == handled.names[i].name
              p == handled.module \o <<n>>
          IN  (/\ ~Reachable(last.before, p)
               /\ get(answers[1].completions, n) = NoCandidate)
              => join(p) \in get_unsolved(solved_names)

\* C5: after visiting  import P.leaf  on an empty trie, the record of leaf
\* under P is in the trie with kind module when the query returned a
\* candidate, and is not resolved to a kind when it returned none.
C5_ImportResolvesLeaf ==
    (last.op = "visit" /\ handled.kind = "Import" /\ last.before = EmptyTrie)
    => \A i \in 1..last.queries :
          LET p == handled.imports[i].name
          IN  ~answers[i].fault
              => IF answers[i].completions # <<>>
                 THEN Reachable(solved_names, p) /\ Walk(solved_names, p).type = "module"
                 ELSE Walk(solved_names, p).type = "unknown"

\* the tries  import r  leaves when it is the first node of the file
AfterImport(r) ==
    { Handler(EmptyTrie, Import(<<Alias(<<r>>, None)>>), <<a>>).root : a \in Answers }

\* C6: after  import r  followed by the chain  r.a , when the chain's query
\* returned a candidate named a of kind function, get_unsolved() holds neither
\* r.a nor the path of a under the candidate's module.
C6_ResolvedChainNotReported ==
    \A r \in Names, a \in Names :
        (/\ last.op = "visit"
         /\ visited = 2
         /\ handled = Attribute(<<r, a>>)
         /\ last.before \in AfterImport(r)
         /\ last.queries = 1
         /\ ~answers[1].fault
         /\ get(answers[1].completions, a).type = "function")
        => /\ join(<<r, a>>) \notin get_unsolved(solved_names)
           /\ join(get(answers[1].completions, a).module_name \o <<a>>)
                  \notin get_unsolved(solved_names)

\* import foo found candidates, and foo.bar is recorded as a function under foo
C6_Witness ==
    /\ last.op = "visit"
    /\ visited = 2
    /\ handled = Attribute(<<"foo", "bar">>)
    /\ last.before \in AfterImport("foo")
    /\ ~answers[1].fault
    /\ get(answers[1].completions, "bar").type = "function"
    /\ ~Reachable(last.before, <<"foo", "bar">>)
    /\ Reachable(solved_names, <<"foo", "bar">>)
    /\ Walk(solved_names, <<"foo", "bar">>).type = "function"

\* C8: a fault raised inside a handler does not escape it: the traversal goes
\* on, the handler returns the node it was given, every record the trie held
\* before the node is still there with its kind, and what the node recorded
\* before the fault is kept.
C8_FaultSwallowed ==
    (last.op = "visit" /\ last.raised)
    => /\ status = "running"
       /\ last.ret = handled
       /\ \A q \in AllPaths :
              Reachable(last.before, q)
              => /\ Reachable(solved_names, q)
                 /\ Walk(solved_names, q).type = Walk(last.before, q).type
       /\ solved_names = Replay(last.before, last.calls)

\* the second query of a node faults after its first name was recorded
C8_Witness ==
    /\ last.op = "visit"
    /\ last.raised
    /\ last.queries = 2
    /\ last.calls # <<>>
    /\ solved_names # last.before
    /\ last.before # EmptyTrie

\* C10: get_unsolved() is exactly the set of the dotted paths of the records
\* reachable from the root whose kind is unknown, at any depth, with or
\* without children.
C10_UnsolvedExact ==
    get_unsolved(solved_names) =
        { join(q) : q \in { p \in AllPaths : /\ Reachable(solved_names, p)
                                            /\ Walk(solved_names, p).type = "unknown" } }

\* an unknown record with an unknown child and a resolved one
C10_Witness ==
    /\ Reachable(solved_names, <<"foo", "bar">>)
    /\ Walk(solved_names, <<"foo">>).type = "unknown"
    /\ Walk(solved_names, <<"foo", "bar">>).type = "unknown"
    /\ get_unsolved(solved_names) = {<<"foo">>, <<"foo", "bar">>}

-----------------------------------------------------------------------------
(* Claims on faults *)

\* what the trie says of a path: whether a record is held, its kind, and
\* whether get_unsolved() reports it
Outcome(root, p) ==
    [present |-> Reachable(root, p),
     kind |-> IF Reachable(root, p) THEN Walk(root, p).type ELSE None,
     unsolved |-> join(p) \in get_unsolved(root)]

\* C7 (under SpecIso): a fault of the oracle on one node's query changes the
\* outcome of no path that the other nodes record (and that node does not).
C7_Isolation ==
    injected => \A p \in others \ own : Outcome(solved_names, p) = Outcome(twin, p)

\* C9 (under LiveSpec): whatever queries fault, the traversal reaches every
\* node of the file and no fault stops it.
C9_TraversalCompletes == <>(visited = nnodes /\ status = "running")

\* the first node's handler faulted and the second node was visited all the same
C9_Witness ==
    /\ nnodes = MaxNodes
    /\ visited = nnodes
    /\ faults > 0
    /\ ~last.raised
    /\ last.op = "visit"
    /\ last.calls # <<>>
    /\ status = "running"

-----------------------------------------------------------------------------
(* Claims on the size of the report *)

\* C11: after any sequence of node visits, get_unsolved() returns (its walk
\* of the trie ends) a set of dotted paths on which solve_name was called
\* during the run, hence with no more elements than there are such paths.
C11_UnsolvedBounded ==
    /\ get_unsolved(solved_names) \subseteq { join(p) : p \in DOMAIN called }
    /\ Cardinality(get_unsolved(solved_names)) <= Cardinality(DOMAIN called)

\* two paths are reported after the visits recorded at least three
C11_Witness ==
    /\ last.op = "visit"
    /\ visited = nnodes
    /\ Cardinality(get_unsolved(solved_names)) = 2
    /\ Cardinality(DOMAIN called) > 2

-----------------------------------------------------------------------------
(* Claims on the source slicer, under SpecCode *)

\* line L of the file (line 0 is the empty line analysis() puts first)
Line(L) == code[L + 1]

\* text.split(os.linesep)
RECURSIVE SplitLines(_)
SplitLines(text) ==
    IF \E i \in 1..Len(text) : text[i] = linesep
    THEN LET i == CHOOSE j \in 1..Len(text) :
                      /\ text[j] = linesep
                      /\ \A k \in 1..(j - 1) : text[k] # linesep
         IN  <<SubSeq(text, 1, i - 1)>> \o SplitLines(SubSeq(text, i + 1, Len(text)))
    ELSE <<text>>

\* C12: for a line L of the file and a column C > 0, get_code(L, C) is the
\* lines before L (line 0 included), each as it is in the file, followed by
\* the first C characters of line L.
C12_PrefixUpToColumn ==
    (last.op = "get_code" /\ last.col > 0)
    => SplitLines(last.text) = slice(code, last.line) \o <<slice(Line(last.line), last.col)>>

\* C13: get_code(L, 0, newline=True) is a text whose last line is the leading
\* whitespace of line L of the file, and nothing else of line L.
C13_WhitespaceOfLine ==
    (last.op = "get_code" /\ last.col = 0 /\ last.newline)
    => LET ls == SplitLines(last.text)
       IN  ls[Len(ls)] = SPACE_PREFIX(Line(last.line))

-----------------------------------------------------------------------------
(* Claims on get_solved, under SpecGet *)

\* the paths of the get_solved calls: the empty one, and records of each depth
GetPaths == SolvePaths \cup {<<"foo", "bar", "foo">>}

\* a call get_solved(path) between the solve_name calls
GetSolvedCall ==
    /\ \E path \in GetPaths :
          /\ solved_names' = Lookups(solved_names, path)
          /\ last' = [NoOp EXCEPT !.op = "get_solved", !.path = path,
                                  !.before = solved_names,
                                  !.info = get_solved(solved_names, path)]
    /\ UNCHANGED <<nnodes, visited, faults, status, handled, answers, called, ncalls,
                   twin, injected, own, others, code>>

NextGet == SolveNameCall \/ GetSolvedCall

SpecGet == Init /\ [][NextGet]_vars

\* C14: get_solved(path) leaves the trie as it was (no placeholder is stored
\* for a missing segment) and returns None whenever some prefix of the path
\* was never the target of solve_name or is not held in the trie.
C14_GetSolvedReadOnly ==
    last.op = "get_solved" =>
        /\ solved_names = last.before
        /\ (\E i \in 1..Len(last.path) :
               \/ SubSeq(last.path, 1, i) \notin DOMAIN called
               \/ ~Reachable(last.before, SubSeq(last.path, 1, i)))
           => last.info = NoRecord

\* foo is recorded, foo.bar is not: get_solved(foo.bar) is None, get_solved(foo) was not
C14_Witness ==
    /\ last.op = "get_solved"
    /\ last.path = <<"foo", "bar">>
    /\ Reachable(last.before, <<"foo">>)
    /\ get_solved(last.before, <<"foo">>) # NoRecord
    /\ ~Reachable(last.before, <<"foo", "bar">>)
    /\ last.info = NoRecord
    /\ solved_names = last.before

-----------------------------------------------------------------------------
(* Claims on the attribute chain handler, under Spec *)

\* C15: every handler, whether it completes or a fault is raised in it,
\* returns the node it was given, so the traversal leaves each node in place.
C15_TreeUnchanged ==
    last.op = "visit" => last.ret = handled

-----------------------------------------------------------------------------
(* Claims on the steps of an attribute chain, under SpecChain.  Step i of
   the handler asks the oracle about the prefix attrs[1..i] and looks for the
   segment attrs[i + 1] among the candidates. *)

ChainVisited == last.op = "visit" /\ handled.kind = "Attribute"

\* the candidate the oracle returns for the segment of step i, if any
Candidate(i) == get(answers[i].completions, handled.attrs[i + 1])

\* the query of step i answers, and the segment is / is not among the candidates
Found(i) == ~answers[i].fault /\ Candidate(i) # NoCandidate
Missed(i) == ~answers[i].fault /\ Candidate(i) = NoCandidate

\* every step up to step i found its segment
FoundUpTo(i) == \A j \in 1..i : Found(j)

\* C16: when the segment of a step after the first is absent from the
\* candidates returned for that step, the handler stops there: the queries
\* made and the records asked for are those of the steps up to that one.
C16_StopsAtMiss ==
    ChainVisited =>
        \A i \in 2..NQueries(handled) :
            (FoundUpTo(i - 1) /\ Missed(i))
            => /\ last.queries = i
               /\ Len(last.calls) = i

\* C17: when the segment of a step is absent from the candidates of that step
\* (none returned, or other names only), the record asked for without a kind
\* has the name of that segment, under the module path of the last candidate
\* that matched.
C17_MissRecordsCurrent ==
    ChainVisited =>
        \A i \in 2..NQueries(handled) :
            (FoundUpTo(i - 1) /\ Missed(i))
            => /\ Len(last.calls) >= i
               /\ last.calls[i] =
                      [path |-> Candidate(i - 1).module_name \o <<handled.attrs[i + 1]>>,
                       type |-> "unknown"]

\* C18: when the first query of a chain returns no candidate for its segment,
\* the chain's root name is recorded, unresolved, in the trie; no other
\* record is asked for and no further query is made.
C18_RootMissAbandons ==
    (ChainVisited /\ NQueries(handled) >= 1 /\ Missed(1))
    => /\ last.queries = 1
       /\ Paths(last.calls) = { <<handled.attrs[1]>> }
       /\ join(<<handled.attrs[1]>>) \in get_unsolved(solved_names)

\* C19: for every segment found among the candidates of its step, the record
\* asked for has the candidate's kind and is keyed under the module path of
\* that segment's candidate; the record of the next step is then asked for
\* under that candidate's module path.
C19_KeyedByDefiningModule ==
    ChainVisited =>
        \A i \in 1..NQueries(handled) :
            FoundUpTo(i)
            => /\ Len(last.calls) >= i
               /\ last.calls[i] =
                      [path |-> Candidate(i).module_name \o <<handled.attrs[i + 1]>>,
                       type |-> Candidate(i).type]
               /\ Len(last.calls) > i
                  => SubSeq(last.calls[i + 1].path, 1, Len(last.calls[i + 1].path) - 1)
                         = Candidate(i).module_name

-----------------------------------------------------------------------------
(* The trie's invariant, under SpecGet *)

\* C20: every record held in the trie below the root is inited and is stored
\* under its own name (no placeholder is ever stored), and get_solved(path)
\* returns a record exactly when the whole path is held in the trie.
C20_StoredAreResolved ==
    \A p \in AllPaths :
        /\ Reachable(solved_names, p)
           => /\ Walk(solved_names, p).inited
              /\ Walk(solved_names, p).name = p[Len(p)]
        /\ get_solved(solved_names, p) # NoRecord <=> Reachable(solved_names, p)

\* a record three levels down is held and read back, one beside it is not held
C20_Witness ==
    /\ last.op = "get_solved"
    /\ last.path = <<"foo", "bar", "foo">>
    /\ Reachable(solved_names, last.path)
    /\ last.info = Walk(solved_names, last.path)
    /\ last.info.inited
    /\ ~Reachable(solved_names, <<"foo", "foo">>)
    /\ get_solved(solved_names, <<"foo", "foo">>) = NoRecord

====
